---- MODULE Spec2Model ----
(***************************************************************************)
(* ExactTranscriber: the chunked transcription pipeline                    *)
(* (transcription_processor.py, api_client.py, file_utils.py,              *)
(* transcript_utils.py) as a state machine.                                *)
(*                                                                         *)
(* Conventions.  An Optional value is a record [some, v]; None has v = <<>>.*)
(* A transcript (a Python str) is the sequence of its '\n'-separated lines; *)
(* the empty string is the one-line text << EmptyLine >>.  A line is a     *)
(* record [kind, ts, content]: kind "ts" is '[' ts ']' content with ts the *)
(* ':'-separated digit fields matched by [\d:]+, kind "end" is a line whose *)
(* strip() is '[END]', kind "blank" is a line whose strip() is empty, kind *)
(* "text" is any other line.  An error message is a sequence of tokens.    *)
(***************************************************************************)
EXTENDS Integers, Sequences, FiniteSets, TLC

\* ------------------------------------------------------------------ bounds

\* Longest audio, in chunk durations.
MaxChunks == 5
\* How many chunk exports may fail in one split.
MaxExportFailures == 1
\* Longest transcript given to a utility function directly, in lines.
MaxLines == 2
\* Longest list of chunk transcripts given to combine_transcriptions directly.
MaxListLen == 2
\* Largest chunk_index given to adjust_chunk_timestamps directly.
MaxChunkIndex == 2
\* The most chunks chunk_audio_file hands to main().
MaxUiChunks == 2

\* ------------------------------------------------------- program constants

CHUNK_DURATION_MS == 120000
MAX_WORKERS == 5
\* MIN_CHUNK_SUCCESS_PERCENTAGE = 0.8, in percent.
MIN_CHUNK_SUCCESS_PERCENT == 80
\* The literal of `large_file = file_size_mb > 20`.
LargeFileThresholdMB == 20

\* ---------------------------------------------------------------- Optional

None == [some |-> FALSE, v |-> <<>>]
Some(x) == [some |-> TRUE, v |-> x]

\* ------------------------------------------------------- transcript grammar

TsLine(fields, content) == [kind |-> "ts", ts |-> fields, content |-> content]
EndLine == [kind |-> "end", ts |-> <<>>, content |-> ""]
EmptyLine == [kind |-> "blank", ts |-> <<>>, content |-> ""]
TextLine(content) == [kind |-> "text", ts |-> <<>>, content |-> content]

\* '\n'.join(lines): joining no line at all gives the empty string.
Join(lines) == IF lines = <<>> THEN << EmptyLine >> ELSE lines

RECURSIVE Digits(_)
Digits(n) == IF n < 10 THEN << n >> ELSE Digits(n \div 10) \o << n % 10 >>

\* Mutant of Fmt02: f"{n}", no zero padding.
FmtPlain(n) == Digits(n)

\* f"{n:02d}"
Fmt02(n) == IF n < 10 THEN << 0, n >> ELSE Digits(n)

RECURSIVE IntOf(_)
\* int(field) of a non-empty digit string
IntOf(ds) ==
    IF Len(ds) = 1 THEN ds[1]
    ELSE 10 * IntOf(SubSeq(ds, 1, Len(ds) - 1)) + ds[Len(ds)]

\* `map(int, parts)` and the check of len(parts): the exception they end
\* with, "none" for a 2- or 3-part timestamp of non-empty digit strings.
TimestampError(parts) ==
    IF Len(parts) \notin {2, 3} \/ \E i \in 1..Len(parts) : parts[i] = <<>>
    THEN "ValueError" ELSE "none"

\* Mutant of LineHandlers: the try has no except clause.
LineHandlersAbsent(exc) == exc

\* adjust_chunk_timestamps: `except ValueError` and `except Exception` both
\* append the original line; nothing leaves the loop.
LineHandlers(exc) == "none"

\* Mutant of AdjustLine: minutes wrap at 60 and the hours do not take them.
AdjustLineNoCarry(line, base_minutes) ==
    LET parts == line.ts IN
    IF Len(parts) \notin {2, 3} \/ \E i \in 1..Len(parts) : parts[i] = <<>>
    THEN line
    ELSE
      LET minutes == (IntOf(parts[Len(parts) - 1]) + base_minutes) % 60
          seconds == IntOf(parts[Len(parts)])
      IN  IF Len(parts) = 2
          THEN TsLine(<< Fmt02(minutes), Fmt02(seconds) >>, line.content)
          ELSE TsLine(<< Fmt02(IntOf(parts[1])), Fmt02(minutes), Fmt02(seconds) >>,
                      line.content)

\* One line of adjust_chunk_timestamps that matched \[([\d:]+)\](.*).
AdjustLine(line, base_minutes) ==
    LET parts == line.ts IN
    IF TimestampError(parts) # "none"
    THEN line      \* ValueError: the original line is kept
    ELSE
      LET hours0 == IF Len(parts) = 3 THEN IntOf(parts[1]) ELSE 0
          minutes == IntOf(parts[Len(parts) - 1])
          seconds == IntOf(parts[Len(parts)])
          sum == minutes + base_minutes
          hours == IF sum >= 60 THEN hours0 + (sum \div 60) ELSE hours0
          adjusted_minutes == IF sum >= 60 THEN sum % 60 ELSE sum
      IN  IF Len(parts) = 2
          THEN TsLine(<< Fmt02(adjusted_minutes), Fmt02(seconds) >>, line.content)
          ELSE TsLine(<< Fmt02(hours), Fmt02(adjusted_minutes), Fmt02(seconds) >>,
                      line.content)

\* Mutant of BaseMinutesOf: the offset of the chunk's end, not of its start.
BaseMinutesOfNext(chunk_index, chunk_duration_ms) ==
    ((chunk_index + 1) * chunk_duration_ms) \div 60000

\* base_minutes = (chunk_index * chunk_duration_ms) // 60000
BaseMinutesOf(chunk_index, chunk_duration_ms) ==
    (chunk_index * chunk_duration_ms) \div 60000

\* An exception leaves adjust_chunk_timestamps.
AdjustRaises(transcription) ==
    \E i \in 1..Len(transcription) :
        /\ transcription[i].kind = "ts"
        /\ LineHandlers(TimestampError(transcription[i].ts)) # "none"

adjust_chunk_timestamps(transcription, chunk_index, chunk_duration_ms) ==
    LET base_minutes == BaseMinutesOf(chunk_index, chunk_duration_ms)
        kept == SelectSeq(transcription, LAMBDA l : l.kind \notin {"blank", "end"})
    IN  Join([i \in 1..Len(kept) |->
                IF kept[i].kind = "ts" THEN AdjustLine(kept[i], base_minutes)
                ELSE kept[i]])

RECURSIVE CombineKeepsAll(_, _)
\* Mutant of CombineFrom: no chunk loses its '[END]' lines.
CombineKeepsAll(chunks, i) ==
    IF i > Len(chunks) THEN <<>>
    ELSE chunks[i] \o CombineKeepsAll(chunks, i + 1)

RECURSIVE CombineStripsAll(_, _)
\* Mutant of CombineFrom: the last chunk loses its '[END]' lines too.
CombineStripsAll(chunks, i) ==
    IF i > Len(chunks) THEN <<>>
    ELSE SelectSeq(chunks[i], LAMBDA l : l.kind # "end")
         \o CombineStripsAll(chunks, i + 1)

RECURSIVE CombineFrom(_, _)
\* The lines combine_transcriptions collects from chunk i on.
CombineFrom(chunks, i) ==
    IF i > Len(chunks) THEN <<>>
    ELSE (IF i < Len(chunks)
          THEN SelectSeq(chunks[i], LAMBDA l : l.kind # "end")
          ELSE chunks[i])
         \o CombineFrom(chunks, i + 1)

combine_transcriptions(transcription_chunks) ==
    Join(CombineFrom(transcription_chunks, 1))

\* -------------------------------------------------------------------- export

\* The text after ']' of an exported line is a sequence of tokens: " ", "[",
\* "]", ":" and words that hold none of them; so is the text of the other
\* lines of an exported transcript.
ExportEndLine == [kind |-> "end", ts |-> <<>>, content |-> <<>>]
ExportEmptyLine == [kind |-> "blank", ts |-> <<>>, content |-> <<>>]
\* ' ': a line of whitespace only.
SpaceLine == [kind |-> "blank", ts |-> <<>>, content |-> << " " >>]

RECURSIVE LStrip(_)
\* s.lstrip(); also what the \s* of \[([\d:]+)\]\s*(.*) takes away
LStrip(toks) ==
    IF toks # <<>> /\ Head(toks) = " " THEN LStrip(Tail(toks)) ELSE toks

RECURSIVE RStrip(_)
RStrip(toks) ==
    IF toks # <<>> /\ toks[Len(toks)] = " "
    THEN RStrip(SubSeq(toks, 1, Len(toks) - 1)) ELSE toks

\* s.strip()
Strip(toks) == LStrip(RStrip(toks))

RECURSIVE StripBrackets(_)
\* s.strip('[]'): every leading and trailing '[' and ']' goes
StripBrackets(toks) ==
    IF toks # <<>> /\ Head(toks) \in {"[", "]"} THEN StripBrackets(Tail(toks))
    ELSE IF toks # <<>> /\ toks[Len(toks)] \in {"[", "]"}
         THEN StripBrackets(SubSeq(toks, 1, Len(toks) - 1))
         ELSE toks

\* f"{str(timedelta(seconds=total)).zfill(8)},000": str() of a timedelta is
\* 'H:MM:SS', with 'D day(s), ' before it from 24 hours on; zfill(8) pads the
\* 7 characters of a one-digit hour and nothing longer.
SrtTime(total) ==
    LET days == total \div 86400
        rest == total % 86400
        hh == rest \div 3600
        mm == (rest % 3600) \div 60
        ss == rest % 60
    IN  [days |-> days,
         hours |-> IF days = 0 THEN Fmt02(hh) ELSE Digits(hh),
         minutes |-> Fmt02(mm),
         seconds |-> Fmt02(ss),
         millis |-> << 0, 0, 0 >>]

\* timedelta(hours, minutes, seconds) of the int()s of a timestamp's fields,
\* in seconds; hours = minutes = seconds = 0 for any other number of fields.
PartsSeconds(parts) ==
    IF Len(parts) = 3
    THEN IntOf(parts[1]) * 3600 + IntOf(parts[2]) * 60 + IntOf(parts[3])
    ELSE IF Len(parts) = 2
         THEN IntOf(parts[1]) * 60 + IntOf(parts[2])
         ELSE 0

\* convert_timestamp_to_srt: '00:00:00,000' for a timestamp that has not 2 or
\* 3 fields, and from `except Exception` when int() of a field raises.
convert_timestamp_to_srt(parts) ==
    IF TimestampError(parts) # "none" THEN SrtTime(0)
    ELSE SrtTime(PartsSeconds(parts))

\* `parts = list(map(int, timestamp.split(':')))` of the SRT branch, outside
\* any try: the exception of int('') for an empty field.
SrtPartsError(parts) ==
    IF \E i \in 1..Len(parts) : parts[i] = <<>> THEN "ValueError" ELSE "none"

\* The lines that match \[([\d:]+)\]\s*(.*) among those that are neither
\* blank nor '[END]'.
Matched(transcript_text) == SelectSeq(transcript_text, LAMBDA l : l.kind = "ts")

\* A str returned as it is.
Text(lines) == [doc |-> "str", lines |-> lines, captions |-> <<>>, transcript |-> <<>>]
\* ''
EmptyString == Text(<< ExportEmptyLine >>)

\* The SRT branch: srt_lines gets index, 'start --> end', content.strip() and
\* '' for every matched line; counter goes up by one with each.
SrtDocument(transcript_text) ==
    LET m == Matched(transcript_text) IN
    IF m = <<>> THEN EmptyString      \* "\n".join([])
    ELSE [doc |-> "srt", lines |-> <<>>, transcript |-> <<>>,
          captions |->
            [i \in 1..Len(m) |->
               [index |-> i,
                start |-> convert_timestamp_to_srt(m[i].ts),
                end |-> SrtTime(PartsSeconds(m[i].ts) + 3),
                content |-> Strip(LStrip(m[i].content))]]]

\* Where a colon is in content.
Colons(content) == { i \in 1..Len(content) : content[i] = ":" }

\* Mutant of SpeakerColon: the split is at the last colon.
SpeakerColonLast(content) ==
    IF Colons(content) = {} \/ 1 \in Colons(content) THEN 0
    ELSE CHOOSE i \in Colons(content) : \A j \in Colons(content) : j <= i

\* re.match(r'([^:]+):\s*(.*)', content): the position of the colon it
\* splits at, 0 without a match. [^:]+ needs a character before the colon.
SpeakerColon(content) ==
    IF Colons(content) = {} \/ 1 \in Colons(content) THEN 0
    ELSE CHOOSE i \in Colons(content) : \A j \in Colons(content) : i <= j

\* "timestamp": timestamp_match.group(1)
EntryTimestamp(parts) == parts

\* The JSON branch: the entry of one matched line.
JsonEntry(line) ==
    LET content == LStrip(line.content)
        k == SpeakerColon(content)
    IN  IF content # <<>> /\ Head(content) = "[" /\ content[Len(content)] = "]"
        THEN [timestamp |-> EntryTimestamp(line.ts), type |-> "event", speaker |-> None,
              content |-> StripBrackets(content)]
        ELSE IF k # 0
             THEN [timestamp |-> EntryTimestamp(line.ts), type |-> "speech",
                   speaker |-> Some(Strip(SubSeq(content, 1, k - 1))),
                   content |-> Strip(SubSeq(content, k + 1, Len(content)))]
             ELSE [timestamp |-> EntryTimestamp(line.ts), type |-> "other", speaker |-> None,
                   content |-> Strip(content)]

\* json.dumps({"transcript": transcript_data}, indent=2)
JsonDocument(transcript_text) ==
    LET m == Matched(transcript_text) IN
    [doc |-> "json", lines |-> <<>>, captions |-> <<>>,
     transcript |-> [i \in 1..Len(m) |-> JsonEntry(m[i])]]

\* An exception leaves format_transcript_for_export.
ExportRaises(transcript_text, format) ==
    /\ transcript_text # << ExportEmptyLine >>
    /\ format = "srt"
    /\ \E i \in 1..Len(transcript_text) :
          /\ transcript_text[i].kind = "ts"
          /\ SrtPartsError(transcript_text[i].ts) # "none"

format_transcript_for_export(transcript_text, format) ==
    IF transcript_text = << ExportEmptyLine >> THEN EmptyString   \* if not transcript_text
    ELSE CASE format = "txt" -> Text(transcript_text)
           [] format = "srt" -> SrtDocument(transcript_text)
           [] format = "json" -> JsonDocument(transcript_text)
           [] OTHER -> Text(transcript_text)

\* ------------------------------------------------------------ error messages

\* str(exception) of the failures the backend is tried with.
RawErrors ==
    { << "Unauthorized" >>,
      << "authentication", "failed" >>,
      << "Quota", "exceeded" >>,
      << "connection", "reset", "AIzaKEY" >> }

NoError == <<>>

\* str.lower() on the vocabulary of RawErrors.
Lower(tok) ==
    CASE tok = "Unauthorized" -> "unauthorized"
      [] tok = "Quota" -> "quota"
      [] OTHER -> tok

\* `word in msg.lower()`
ContainsLower(msg, word) == \E i \in 1..Len(msg) : Lower(msg[i]) = word
\* `word in msg`
Contains(msg, word) == \E i \in 1..Len(msg) : msg[i] = word
\* `"w1 w2" in msg.lower()`
ContainsLower2(msg, w1, w2) ==
    \E i \in 1..(Len(msg) - 1) : Lower(msg[i]) = w1 /\ Lower(msg[i + 1]) = w2

\* API-key-shaped tokens and user-path fragments.
SecretTokens == { "AIzaKEY", "/home/user" }

sanitize_error_message(msg) ==
    [i \in 1..Len(msg) |-> IF msg[i] \in SecretTokens THEN "[REDACTED]" ELSE msg[i]]

\* ------------------------------------------------------------------ backend

\* What the backend transcribes (chunk-local timestamps).
T1 == << TsLine(<< <<0, 0>>, <<0, 5>> >>, " Speaker 1: Hello"), EndLine >>
T2 == << TsLine(<< <<0, 0>>, <<0, 1>>, <<0, 7>> >>, " [MUSIC]") >>
NoText == <<>>

Response(direct, direct_text, nested, nested_text) ==
    [direct |-> direct, direct_text |-> direct_text,
     nested |-> nested, nested_text |-> nested_text]

\* direct: the `text` attribute is a str ("text"), is None ("none"), raises
\* other than AttributeError when read ("raises"), or is absent ("absent");
\* nested: candidates[0].content.parts[0].text likewise.
Responses ==
    { Response("text", T1, "text", T2),
      Response("none", NoText, "text", T2),
      Response("raises", NoText, "raises", NoText),
      Response("absent", NoText, "text", T2),
      Response("absent", NoText, "none", NoText),
      Response("absent", NoText, "raises", NoText) }

NoResponse == Response("absent", NoText, "raises", NoText)

UploadOutcomes ==
    { [ok |-> TRUE, err |-> NoError] } \cup { [ok |-> FALSE, err |-> e] : e \in RawErrors }

GenerateOutcomes ==
    { [ok |-> TRUE, err |-> NoError, resp |-> r] : r \in Responses }
    \cup { [ok |-> FALSE, err |-> e, resp |-> NoResponse] : e \in { << "connection", "reset", "AIzaKEY" >> } }

\* The backend behaviours tried on a chunk of the pool: the responses whose
\* text, if any, is T1.
ChunkGenerateOutcomes ==
    { g \in GenerateOutcomes :
        g.ok => (g.resp.direct # "absent" \/ g.resp.nested # "text") }

NotCalled == [ok |-> FALSE, err |-> NoError, resp |-> NoResponse]

\* str(exception) of a failed attribute/index access on the response.
ExtractErr == << "list", "index", "out", "of", "range" >>

\* response.text if hasattr(response, 'text')
\*   else response.candidates[0].content.parts[0].text
ExtractText(r) ==
    CASE r.direct = "raises" -> [raised |-> TRUE, value |-> None]
      [] r.direct = "text"   -> [raised |-> FALSE, value |-> Some(r.direct_text)]
      [] r.direct = "none"   -> [raised |-> FALSE, value |-> None]
      [] OTHER ->
            CASE r.nested = "raises" -> [raised |-> TRUE, value |-> None]
              [] r.nested = "text"   -> [raised |-> FALSE, value |-> Some(r.nested_text)]
              [] OTHER               -> [raised |-> FALSE, value |-> None]

\* --------------------------------------------------------- single-call results

Ret(text, error) == [text |-> text, error |-> error, raised |-> FALSE]
NoRet == Ret(None, None)

\* _process_small_file: the `except Exception as upload_err` branch.
SmallFileUploadError(raw) ==
    LET error_msg == sanitize_error_message(raw) IN
    IF ContainsLower(error_msg, "unauthorized")
       \/ ContainsLower2(error_msg, "authentication", "error")
       \/ Contains(error_msg, "API key")
    THEN Ret(None, Some(<< "API authentication error. Please check your API key." >>))
    ELSE IF ContainsLower(error_msg, "quota")
    THEN Ret(None, Some(<< "API quota exceeded. Please try again later." >>))
    ELSE Ret(None, Some(<< "File upload failed: " >> \o error_msg))

\* _process_small_file: the second try block (generate and extract together).
SmallFileTranscribe(gen) ==
    IF ~gen.ok
    THEN Ret(None, Some(<< "Transcription failed: " >> \o sanitize_error_message(gen.err)))
    ELSE LET x == ExtractText(gen.resp) IN
         IF x.raised
         THEN Ret(None, Some(<< "Transcription failed: " >> \o sanitize_error_message(ExtractErr)))
         ELSE Ret(x.value, None)

\* process_audio_chunk: the `except Exception as upload_err` branch.
ChunkApiUploadError(raw) ==
    IF ContainsLower(raw, "unauthorized") \/ ContainsLower(raw, "authentication")
    THEN Ret(None, Some(<< "API authentication error: " >> \o raw))
    ELSE IF ContainsLower(raw, "quota")
    THEN Ret(None, Some(<< "API quota exceeded: " >> \o raw))
    ELSE Ret(None, Some(<< "Chunk upload failed: " >> \o raw))

\* process_audio_chunk: the transcription and extraction steps.
ChunkApiTranscribe(gen) ==
    IF ~gen.ok
    THEN Ret(None, Some(<< "Transcription API error: " >> \o gen.err))
    ELSE LET x == ExtractText(gen.resp) IN
         IF x.raised
         THEN Ret(None, Some(<< "Could not extract transcript text: " >> \o ExtractErr))
         ELSE Ret(x.value, None)

\* The body of _process_single_chunk after a successful upload: the exception
\* it ends with ("none" when it returns) and the value it returns.
SingleChunkBody(gen, chunk_index) ==
    IF ~gen.ok THEN [exc |-> "ValueError", value |-> None]
    ELSE LET x == ExtractText(gen.resp) IN
         IF x.raised THEN [exc |-> "ValueError", value |-> None]
         ELSE IF ~x.value.some
         THEN [exc |-> "AttributeError", value |-> None]   \* None.split in adjust_chunk_timestamps
         ELSE [exc |-> "none",
               value |-> Some(adjust_chunk_timestamps(x.value.v, chunk_index, CHUNK_DURATION_MS))]

\* Mutant of SingleChunkHandlers: only `except ValueError` is there.
HandlersValueErrorOnly(body) ==
    IF body.exc = "none"
    THEN [raised |-> FALSE, value |-> body.value]
    ELSE [raised |-> body.exc # "ValueError", value |-> None]

\* _process_single_chunk's handlers: `except ValueError` and `except Exception`
\* both return None.
SingleChunkHandlers(body) ==
    IF body.exc = "none"
    THEN [raised |-> FALSE, value |-> body.value]
    ELSE [raised |-> FALSE, value |-> None]

\* -------------------------------------------------------------------- state

VARIABLES
    pc,                 \* position of the calling thread
    entry,              \* the entry point called: "process_audio" | "process_audio_chunk"
    file_size_mb,       \* process_audio's file_size_mb
    total_duration,     \* len(audio) in ms, once decoded
    split_num_chunks,   \* chunk_audio_file's num_chunks
    export_i,           \* chunk_audio_file's loop index i
    export_failed,      \* the indices i whose export raised
    chunk_paths,        \* chunk_audio_file's / _process_large_file's chunk_paths (chunk_<i> as i)
    num_chunks,         \* _process_large_file's num_chunks
    dir_exists,         \* the mkdtemp() directory exists
    files,              \* the i whose chunk_<i> file exists in it
    job_state,          \* per submitted job: "queued" | "started" | "uploaded" | "done"
    results,            \* per submitted job: the future's result
    all_transcriptions, \* _process_chunks_parallel's return value
    path,               \* _process_large_file's branch: "none" | "chunked" | "fallback"
    whole_up,           \* what the backend did on the whole-file upload
    whole_gen,          \* what the backend did on the whole-file generate
    ret,                \* what the entry point returned
    calls,              \* how often each collaborator was called
    chunk_uploads,      \* per job: client.files.upload calls
    chunk_generates,    \* per job: client.models.generate_content calls
    call,               \* a direct call of a utility function: its arguments and result
    task,               \* process_transcription_task: its locals, its position, its result
    session,            \* st.session_state
    ui                  \* main(): the position of the script run and its locals

vars == << pc, entry, file_size_mb, total_duration, split_num_chunks, export_i,
           export_failed, chunk_paths, num_chunks, dir_exists, files, job_state,
           results, all_transcriptions, path, whole_up, whole_gen, ret, calls,
           chunk_uploads, chunk_generates, call, task, session, ui >>

appVars == << task, session, ui >>

splitVars == << total_duration, split_num_chunks, export_i, export_failed,
                chunk_paths, num_chunks >>
fsVars == << dir_exists, files >>
poolVars == << job_state, results, chunk_uploads, chunk_generates >>
wholeVars == << whole_up, whole_gen >>

\* The sizes tried: below, at and above the routing threshold.
FileSizes == (LargeFileThresholdMB - 1)..(LargeFileThresholdMB + 1)
\* The audio lengths tried: whole chunk durations, and one and a quarter.
Durations ==
    { k * CHUNK_DURATION_MS : k \in 0..MaxChunks }
    \cup { CHUNK_DURATION_MS + CHUNK_DURATION_MS \div 4 }

Pending == [set |-> FALSE, chunk |-> 0, raised |-> FALSE, value |-> None]

\* No pipeline call has been made.
PipelineIdle ==
    /\ pc = "idle"
    /\ entry = "none"
    /\ file_size_mb = 0
    /\ total_duration = 0
    /\ split_num_chunks = 0
    /\ export_i = 0
    /\ export_failed = {}
    /\ chunk_paths = <<>>
    /\ num_chunks = 0
    /\ dir_exists = FALSE
    /\ files = {}
    /\ job_state = <<>>
    /\ results = <<>>
    /\ all_transcriptions = <<>>
    /\ path = "none"
    /\ whole_up = NotCalled
    /\ whole_gen = NotCalled
    /\ ret = NoRet
    /\ calls = [split |-> 0, dispatch |-> 0, combine |-> 0, cleanup |-> 0,
                upload |-> 0, generate |-> 0]
    /\ chunk_uploads = <<>>
    /\ chunk_generates = <<>>

\* process_transcription_task has not been called.
NoTask == [pc |-> "idle"]
\* st.session_state before any script run: no key is in it. `keys` holds
\* the keys that are; the value of a key that is not reads None here.
NoSession ==
    [keys |-> {}, processing_status |-> None, error_message |-> None,
     current_file_name |-> None, transcript_text |-> None,
     edited_transcript |-> None, transcript_editor_content |-> None]
\* main() has not run: pc is where the script is ("idle" between runs,
\* "rerun" after st.rerun()), uploaded the file in the uploader widget, ended
\* how the processing block ended in this run, the rest the block's locals.
NoUi ==
    [pc |-> "idle", uploaded |-> None, client |-> FALSE, file_path |-> FALSE,
     num_chunks |-> 0, chunk_paths |-> 0, chunk_files |-> 0,
     all_transcriptions |-> <<>>, combined_transcription |-> None,
     error_str |-> NoError, ended |-> "none"]

AppIdle ==
    /\ task = NoTask
    /\ session = NoSession
    /\ ui = NoUi

NoCall ==
    [fn |-> "none", args |-> <<>>, returned |-> FALSE, raised |-> FALSE, value |-> <<>>]

Init ==
    /\ PipelineIdle
    /\ call = NoCall
    /\ AppIdle

Bump(field) == [calls EXCEPT ![field] = @ + 1]

\* ------------------------------------------------------------ process_audio

\* Mutant of LargeFile: the boundary size takes the chunked path.
LargeFileInclusive(size_mb) == size_mb >= LargeFileThresholdMB

\* `large_file = file_size_mb > 20`
LargeFile(size_mb) == size_mb > LargeFileThresholdMB

\* process_audio: render the prompt and route by size.
process_audio(size_mb) ==
    /\ pc = "idle"
    /\ entry' = "process_audio"
    /\ file_size_mb' = size_mb
    /\ pc' = IF LargeFile(size_mb) THEN "load_audio" ELSE "small_upload"
    /\ UNCHANGED << call, appVars, splitVars, fsVars, poolVars, wholeVars, all_transcriptions,
                    path, ret, calls >>

\* Where _process_small_file returns to: process_audio's caller, or the
\* `finally` of _process_large_file.
AfterSmallFile == IF path = "fallback" THEN "cleanup" ELSE "done"

\* Mutant of AfterSmallUpload: the upload's except branch does not return.
AfterSmallUploadFallsThrough(up) == "small_generate"

\* _process_small_file: the first try block returns on an upload failure,
\* else the second try block follows.
AfterSmallUpload(up) == IF up.ok THEN "small_generate" ELSE AfterSmallFile

\* _process_small_file: client.files.upload.
SmallFileUpload(up) ==
    /\ pc = "small_upload"
    /\ whole_up' = up
    /\ calls' = Bump("upload")
    /\ pc' = AfterSmallUpload(up)
    /\ ret' = IF up.ok THEN ret ELSE SmallFileUploadError(up.err)
    /\ UNCHANGED << call, appVars, entry, file_size_mb, splitVars, fsVars, poolVars, whole_gen,
                    all_transcriptions, path >>

\* _process_small_file: client.models.generate_content and the text extraction.
SmallFileGenerate(gen) ==
    /\ pc = "small_generate"
    /\ whole_gen' = gen
    /\ calls' = Bump("generate")
    /\ pc' = AfterSmallFile
    /\ ret' = SmallFileTranscribe(gen)
    /\ UNCHANGED << call, appVars, entry, file_size_mb, splitVars, fsVars, poolVars, whole_up,
                    all_transcriptions, path >>

\* ---------------------------------------------------------- chunk_audio_file

\* Mutant of NumChunks: the remainder gets no chunk of its own.
NumChunksFloor(duration, chunk_duration_ms) == duration \div chunk_duration_ms

\* (total_duration // chunk_duration_ms) + (1 if total_duration % chunk_duration_ms > 0 else 0)
NumChunks(duration, chunk_duration_ms) ==
    (duration \div chunk_duration_ms)
    + (IF duration % chunk_duration_ms > 0 THEN 1 ELSE 0)

\* _process_large_file's `return None, "Failed to split audio file."`
SplitFailed == Ret(None, Some(<< "Failed to split audio file." >>))

\* chunk_audio_file up to the loop: decode, count the chunks, mkdtemp.
LoadAudio(decodable, duration) ==
    /\ pc = "load_audio"
    /\ calls' = Bump("split")
    /\ IF decodable
       THEN /\ total_duration' = duration
            /\ split_num_chunks' = NumChunks(duration, CHUNK_DURATION_MS)
            /\ dir_exists' = TRUE
            /\ pc' = "export"
            /\ ret' = ret
       ELSE \* return [], 0; then `if num_chunks == 0 or not chunk_paths`
            /\ pc' = "done"
            /\ ret' = SplitFailed
            /\ UNCHANGED << total_duration, split_num_chunks, dir_exists >>
    /\ UNCHANGED << call, appVars, entry, file_size_mb, export_i, export_failed, chunk_paths,
                    num_chunks, files, poolVars, wholeVars, all_transcriptions, path >>

\* Mutant of AfterExport: a failed export ends the loop.
AfterExportAborts(i, outcome, n) == IF outcome = "ok" THEN i + 1 ELSE n

\* The per-chunk try/except logs a failed export and the `for` loop goes on
\* with the next i.
AfterExport(i, outcome, n) == i + 1

\* One iteration of `for i in range(num_chunks)`. The export either succeeds,
\* raises before creating the file ("fail"), or raises after creating it
\* ("partial"): the path is appended only when it succeeds.
ExportChunk(outcome) ==
    /\ pc = "export"
    /\ export_i < split_num_chunks
    /\ outcome # "ok" => Cardinality(export_failed) < MaxExportFailures
    /\ export_i' = AfterExport(export_i, outcome, split_num_chunks)
    /\ chunk_paths' = IF outcome = "ok" THEN Append(chunk_paths, export_i) ELSE chunk_paths
    /\ files' = IF outcome \in {"ok", "partial"} THEN files \cup {export_i} ELSE files
    /\ export_failed' = IF outcome = "ok" THEN export_failed ELSE export_failed \cup {export_i}
    /\ UNCHANGED << call, appVars, pc, entry, file_size_mb, total_duration, split_num_chunks,
                    num_chunks, dir_exists, poolVars, wholeVars, all_transcriptions,
                    path, ret, calls >>

\* executor.map submits one job per chunk path.
Submitted(paths) == [k \in 1..Len(paths) |-> "queued"]

\* Mutant of DirAfterCleanup: the scratch directory is left behind.
DirLeftBehind(exists) == exists

\* cleanup_directory(temp_dir): shutil.rmtree removes the directory and all
\* that is in it.
DirAfterCleanup(exists) == FALSE

\* After the loop: return chunk_paths, num_chunks, or clean up and return [], 0;
\* then _process_large_file's check and the start of _process_chunks_parallel.
SplitReturn ==
    /\ pc = "export"
    /\ export_i = split_num_chunks
    /\ IF chunk_paths = <<>>
       THEN \* raise Exception(...); cleanup_directory(temp_dir); return [], 0
            /\ files' = {}
            /\ dir_exists' = DirAfterCleanup(dir_exists)
            /\ num_chunks' = 0
            /\ pc' = "done"
            /\ ret' = SplitFailed
            /\ UNCHANGED << poolVars, calls >>
       ELSE /\ num_chunks' = split_num_chunks
            /\ pc' = "dispatch"
            /\ calls' = Bump("dispatch")
            /\ job_state' = Submitted(chunk_paths)
            /\ results' = [k \in 1..Len(chunk_paths) |-> Pending]
            /\ chunk_uploads' = [k \in 1..Len(chunk_paths) |-> 0]
            /\ chunk_generates' = [k \in 1..Len(chunk_paths) |-> 0]
            /\ UNCHANGED << fsVars, ret >>
    /\ UNCHANGED << call, appVars, entry, file_size_mb, total_duration, split_num_chunks, export_i,
                    export_failed, chunk_paths, wholeVars, all_transcriptions, path >>

\* ------------------------------------------------- _process_chunks_parallel

Jobs == 1..Len(job_state)
InProgress == { k \in Jobs : job_state[k] \in {"started", "uploaded"} }

\* Mutant of ResultSlot: results taken in completion order (as_completed).
FirstFreeSlot(res, k) ==
    CHOOSE s \in 1..Len(res) : ~res[s].set /\ \A t \in 1..(s - 1) : res[t].set

\* executor.map yields the futures' results in submission order: job k's
\* result is the k-th item, whenever it completes.
ResultSlot(res, k) == k

StoreResult(res, k, r) ==
    [res EXCEPT ![ResultSlot(res, k)] =
        [set |-> TRUE, chunk |-> k, raised |-> r.raised, value |-> r.value]]

\* Mutant of PoolHasIdleThread: the executor starts a thread for every job.
PoolUnbounded(in_progress) == TRUE

\* ThreadPoolExecutor(max_workers=MAX_WORKERS): a queued job starts only on
\* one of at most MAX_WORKERS threads.
PoolHasIdleThread(in_progress) == in_progress < MAX_WORKERS

\* A pool thread takes the next work item off the FIFO queue.
StartChunk(k) ==
    /\ pc = "dispatch"
    /\ k \in Jobs
    /\ job_state[k] = "queued"
    /\ \A j \in Jobs : j < k => job_state[j] # "queued"
    /\ PoolHasIdleThread(Cardinality(InProgress))
    /\ job_state' = [job_state EXCEPT ![k] = "started"]
    /\ UNCHANGED << call, appVars, pc, entry, file_size_mb, splitVars, fsVars, results,
                    chunk_uploads, chunk_generates, wholeVars, all_transcriptions,
                    path, ret, calls >>

\* Mutant of UploadFailedState: a failed upload is tried again.
UploadFailedRetry == "started"

\* _process_single_chunk after a failed upload: ValueError, caught, return None.
UploadFailedState == "done"

\* _process_single_chunk: client.files.upload of the chunk. The job's
\* chunk_index is its position in enumerate(chunk_paths), i.e. k - 1.
ChunkUpload(k, up) ==
    /\ pc = "dispatch"
    /\ k \in Jobs
    /\ job_state[k] = "started"
    /\ chunk_uploads' = [chunk_uploads EXCEPT ![k] = @ + 1]
    /\ IF up.ok
       THEN /\ job_state' = [job_state EXCEPT ![k] = "uploaded"]
            /\ results' = results
       ELSE /\ job_state' = [job_state EXCEPT ![k] = UploadFailedState]
            /\ results' = IF UploadFailedState = "done"
                          THEN StoreResult(results, k,
                                  SingleChunkHandlers([exc |-> "ValueError", value |-> None]))
                          ELSE results
    /\ UNCHANGED << call, appVars, pc, entry, file_size_mb, splitVars, fsVars, chunk_generates,
                    wholeVars, all_transcriptions, path, ret, calls >>

\* _process_single_chunk: generate_content, text extraction, timestamp
\* adjustment, and the exception handlers.
ChunkGenerate(k, gen) ==
    /\ pc = "dispatch"
    /\ k \in Jobs
    /\ job_state[k] = "uploaded"
    /\ chunk_generates' = [chunk_generates EXCEPT ![k] = @ + 1]
    /\ job_state' = [job_state EXCEPT ![k] = "done"]
    /\ results' = StoreResult(results, k, SingleChunkHandlers(SingleChunkBody(gen, k - 1)))
    /\ UNCHANGED << call, appVars, pc, entry, file_size_mb, splitVars, fsVars, chunk_uploads,
                    wholeVars, all_transcriptions, path, ret, calls >>

\* [res for res in results if res is not None]
NotNone(res) == SelectSeq(res, LAMBDA r : r.value.some)
Texts(res) == [i \in 1..Len(res) |-> res[i].value.v]

Raised == [text |-> None, error |-> None, raised |-> TRUE]

\* Mutant of PoolJoined: the `with` block is left as soon as one job is done.
PoolJoinedEarly(states) == \E k \in 1..Len(states) : states[k] = "done"

\* The iteration over executor.map's results and the executor's
\* shutdown(wait=True) at the end of the `with` block wait for every job.
PoolJoined(states) == \A k \in 1..Len(states) : states[k] = "done"

\* The list comprehension over executor.map's results and the end of the
\* `with` block (shutdown(wait=True)): every job has completed. A result
\* that is an exception is re-raised by the iteration.
CollectResults ==
    /\ pc = "dispatch"
    /\ PoolJoined(job_state)
    /\ IF \E k \in Jobs : results[k].raised
       THEN /\ pc' = "cleanup"
            /\ ret' = Raised
            /\ UNCHANGED all_transcriptions
       ELSE /\ pc' = "decide"
            /\ all_transcriptions' = Texts(NotNone(results))
            /\ UNCHANGED ret
    /\ UNCHANGED << call, appVars, entry, file_size_mb, splitVars, fsVars, poolVars, wholeVars,
                    path, calls >>

\* ------------------------------------------------------- _process_large_file

\* Mutant of Accept: the threshold compared with > instead of >=.
AcceptStrict(transcriptions, n) ==
    /\ transcriptions # <<>>
    /\ Len(transcriptions) * 100 > n * MIN_CHUNK_SUCCESS_PERCENT

\* all_transcriptions and len(all_transcriptions) >= num_chunks * MIN_CHUNK_SUCCESS_PERCENTAGE
Accept(transcriptions, n) ==
    /\ transcriptions # <<>>
    /\ Len(transcriptions) * 100 >= n * MIN_CHUNK_SUCCESS_PERCENT

\* Mutant of FallbackReturn: a failed fallback answers with the chunks it has.
FallbackKeepsChunks(small, transcriptions) ==
    IF ~small.text.some /\ transcriptions # <<>>
    THEN Ret(Some(combine_transcriptions(transcriptions)), None)
    ELSE small

\* What _process_large_file returns from the fallback branch.
FallbackReturn(small, transcriptions) == small

\* `if all_transcriptions and len(...) >= ...: combine ... else: fallback`
CombineOrFallback ==
    /\ pc = "decide"
    /\ IF Accept(all_transcriptions, num_chunks)
       THEN /\ path' = "chunked"
            /\ calls' = Bump("combine")
            /\ ret' = Ret(Some(combine_transcriptions(all_transcriptions)), None)
            /\ pc' = "cleanup"
       ELSE /\ path' = "fallback"
            /\ pc' = "small_upload"
            /\ UNCHANGED << calls, ret >>
    /\ UNCHANGED << call, appVars, entry, file_size_mb, splitVars, fsVars, poolVars, wholeVars,
                    all_transcriptions >>

Range(seq) == { seq[i] : i \in 1..Len(seq) }

\* cleanup_chunks: unlink every listed path that exists.
UnlinkChunks(paths, fs) == fs \ Range(paths)

\* cleanup_chunks: rmdir the directory of the first unlinked path if it is empty.
RemoveDir(paths, fs, exists) ==
    IF exists /\ Range(paths) \cap fs # {} /\ UnlinkChunks(paths, fs) = {}
    THEN FALSE ELSE exists

\* The `finally` of _process_large_file: cleanup_chunks(chunk_paths), then the
\* pending return value (or exception) leaves the function.
CleanupChunks ==
    /\ pc = "cleanup"
    /\ calls' = Bump("cleanup")
    /\ files' = UnlinkChunks(chunk_paths, files)
    /\ dir_exists' = RemoveDir(chunk_paths, files, dir_exists)
    /\ ret' = IF path = "fallback" THEN FallbackReturn(ret, all_transcriptions) ELSE ret
    /\ pc' = "done"
    /\ UNCHANGED << call, appVars, entry, file_size_mb, splitVars, poolVars, wholeVars,
                    all_transcriptions, path >>

\* ------------------------------------------------------- process_audio_chunk

process_audio_chunk ==
    /\ pc = "idle"
    /\ entry' = "process_audio_chunk"
    /\ pc' = "pac_upload"
    /\ UNCHANGED << call, appVars, file_size_mb, splitVars, fsVars, poolVars, wholeVars,
                    all_transcriptions, path, ret, calls >>

\* process_audio_chunk: the upload's except branch returns, else the
\* transcription step follows.
AfterChunkApiUpload(up) == IF up.ok THEN "pac_generate" ELSE "done"

\* process_audio_chunk: the API upload step.
ChunkApiUpload(up) ==
    /\ pc = "pac_upload"
    /\ whole_up' = up
    /\ calls' = Bump("upload")
    /\ pc' = AfterChunkApiUpload(up)
    /\ ret' = IF up.ok THEN ret ELSE ChunkApiUploadError(up.err)
    /\ UNCHANGED << call, appVars, entry, file_size_mb, splitVars, fsVars, poolVars, whole_gen,
                    all_transcriptions, path >>

\* process_audio_chunk: the transcription step and the text extraction.
ChunkApiGenerate(gen) ==
    /\ pc = "pac_generate"
    /\ whole_gen' = gen
    /\ calls' = Bump("generate")
    /\ pc' = "done"
    /\ ret' = ChunkApiTranscribe(gen)
    /\ UNCHANGED << call, appVars, entry, file_size_mb, splitVars, fsVars, poolVars, whole_up,
                    all_transcriptions, path >>

\* ------------------------------------------------------------ specification

Next ==
    \/ \E size_mb \in FileSizes : process_audio(size_mb)
    \/ \E up \in UploadOutcomes : SmallFileUpload(up)
    \/ \E gen \in GenerateOutcomes : SmallFileGenerate(gen)
    \/ \E decodable \in BOOLEAN, duration \in Durations : LoadAudio(decodable, duration)
    \/ \E outcome \in {"ok", "fail", "partial"} : ExportChunk(outcome)
    \/ SplitReturn
    \/ \E k \in 1..Len(job_state) : StartChunk(k)
    \/ \E k \in 1..Len(job_state), up \in UploadOutcomes : ChunkUpload(k, up)
    \/ \E k \in 1..Len(job_state), gen \in ChunkGenerateOutcomes : ChunkGenerate(k, gen)
    \/ CollectResults
    \/ CombineOrFallback
    \/ CleanupChunks
    \/ process_audio_chunk
    \/ \E up \in UploadOutcomes : ChunkApiUpload(up)
    \/ \E gen \in GenerateOutcomes : ChunkApiGenerate(gen)

Spec == Init /\ [][Next]_vars

\* ------------------------------------- the pipeline on more chunks than threads

\* len(audio) of a file of one chunk more than the pool has threads.
PoolDuration == (MAX_WORKERS + 1) * CHUNK_DURATION_MS

\* The backend on that file: an upload succeeds or runs into the quota, a
\* generate call answers with a text.
PoolUploadOutcomes ==
    { u \in UploadOutcomes : u.ok \/ u.err = << "Quota", "exceeded" >> }
PoolGenerateOutcomes ==
    { g \in ChunkGenerateOutcomes : g.ok /\ g.resp.direct = "text" }

PoolNext ==
    \/ process_audio(LargeFileThresholdMB + 1)
    \/ LoadAudio(TRUE, PoolDuration)
    \/ ExportChunk("ok")
    \/ SplitReturn
    \/ \E k \in 1..Len(job_state) : StartChunk(k)
    \/ \E k \in 1..Len(job_state), up \in PoolUploadOutcomes : ChunkUpload(k, up)
    \/ \E k \in 1..Len(job_state), gen \in PoolGenerateOutcomes : ChunkGenerate(k, gen)
    \/ CollectResults
    \/ CombineOrFallback
    \/ \E up \in PoolUploadOutcomes : SmallFileUpload(up)
    \/ \E gen \in PoolGenerateOutcomes : SmallFileGenerate(gen)
    \/ CleanupChunks

PoolSpec == Init /\ [][PoolNext]_vars

\* ------------------------------------------- the utilities, called directly

\* The sequences of 1..n members of S.
SeqsUpTo(S, n) == UNION { [1..k -> S] : k \in 1..n }

\* '  [END]': a line that is '[END]' only once trimmed.
IndentedEndLine == [kind |-> "end", ts |-> <<>>, content |-> "  "]

\* [00:05], [59:30], [1:59]
TwoPart ==
    { << <<0, 0>>, <<0, 5>> >>, << <<5, 9>>, <<3, 0>> >>, << <<1>>, <<5, 9>> >> }
\* [00:01:07], [00:59:30], [01:58:00]
ThreePart ==
    { << <<0, 0>>, <<0, 1>>, <<0, 7>> >>,
      << <<0, 0>>, <<5, 9>>, <<3, 0>> >>,
      << <<0, 1>>, <<5, 8>>, <<0, 0>> >> }
\* [7]: matched by [\d:]+, neither MM:SS nor HH:MM:SS
OnePart == { << <<7>> >> }
\* [5::3]: three parts, one of them empty
EmptyPart == { << <<5>>, <<>>, <<3>> >> }

\* The lines of the transcripts given to adjust_chunk_timestamps.
AdjustLines ==
    { TsLine(f, " Speaker 1: Hello") : f \in TwoPart \cup ThreePart \cup OnePart \cup EmptyPart }
    \cup { EndLine, EmptyLine, TextLine("Speaker 2: no timestamp") }

\* The lines of the transcripts given to combine_transcriptions.
CombineLines ==
    { TsLine(<< <<0, 0>>, <<0, 5>> >>, " Speaker 1: Hello"), EndLine, IndentedEndLine }

\* The chunk_duration_ms values tried: the default, and the 60000 and 90000
\* of shorter chunks.
ChunkDurations ==
    { CHUNK_DURATION_MS, CHUNK_DURATION_MS \div 2, 3 * (CHUNK_DURATION_MS \div 4) }

\* The len(audio) values tried, around the multiples of the chunk durations.
TotalDurations ==
    { 0, 1 } \cup { k * d + e : k \in 1..2, d \in ChunkDurations, e \in {-1, 0, 1} }
    \cup { 150000 }

\* chunk_audio_file on decodable audio of length total whose exports of the
\* chunks in `failed` raise: what it returns.
chunk_audio_file(total, chunk_duration_ms, failed) ==
    LET n == NumChunks(total, chunk_duration_ms)
        paths == SelectSeq([k \in 1..n |-> k - 1], LAMBDA i : i \notin failed)
    IN  IF paths = <<>>
        THEN [chunk_paths |-> <<>>, num_chunks |-> 0]
        ELSE [chunk_paths |-> paths, num_chunks |-> n]

\* [00:05], [99:59], [00:00:05], [23:59:58], [24:00:00], and the matches of
\* [\d:]+ that are no timestamp: [7], [5::3], [1:2:3:4]
ExportTimestamps ==
    { << <<0, 0>>, <<0, 5>> >>, << <<9, 9>>, <<5, 9>> >>,
      << <<0, 0>>, <<0, 0>>, <<0, 5>> >>, << <<2, 3>>, <<5, 9>>, <<5, 8>> >>,
      << <<2, 4>>, <<0, 0>>, <<0, 0>> >> }
    \cup OnePart \cup EmptyPart \cup { << <<1>>, <<2>>, <<3>>, <<4>> >> }

\* ' Speaker 1: Hello'
SpeechContent == << " ", "Speaker 1", ":", " ", "Hello" >>

\* ' [MUSIC]', ' [[MUSIC]]', ' [MUSIC] ', ' : x', ' A:b:c', ' hello'
ExportContents ==
    { << " ", "[", "MUSIC", "]" >>, << " ", "[", "[", "MUSIC", "]", "]" >>,
      << " ", "[", "MUSIC", "]", " " >>, << " ", ":", " ", "x" >>,
      << " ", "A", ":", "b", ":", "c" >>, << " ", "hello" >> }

\* The lines of the transcripts given to format_transcript_for_export.
ExportLines ==
    { TsLine(f, SpeechContent) : f \in ExportTimestamps }
    \cup { TsLine(<< <<0, 0>>, <<0, 5>> >>, c) : c \in ExportContents }
    \cup { ExportEndLine, ExportEmptyLine, SpaceLine,
           TextLine(<< "Speaker 2", ":", " ", "no", " ", "timestamp" >>) }

ExportFormats == { "txt", "srt", "json" }

Args(fn, args) ==
    [fn |-> fn, args |-> args, returned |-> FALSE, raised |-> FALSE, value |-> <<>>]

\* The direct calls tried.
UtilCalls ==
    { Args("combine_transcriptions", << chunks >>) :
        chunks \in { <<>> } \cup SeqsUpTo(SeqsUpTo(CombineLines, MaxLines), MaxListLen) }
    \cup { Args("adjust_chunk_timestamps", << t, i, d >>) :
             t \in SeqsUpTo(AdjustLines, MaxLines), i \in 0..MaxChunkIndex,
             d \in ChunkDurations }
    \cup { Args("chunk_audio_file", << total, d, failed >>) :
             total \in TotalDurations, d \in ChunkDurations, failed \in { {}, {0} } }
    \cup { Args("format_transcript_for_export", << t, f >>) :
             t \in SeqsUpTo(ExportLines, MaxLines), f \in ExportFormats }

UtilInit ==
    /\ PipelineIdle
    /\ call \in UtilCalls
    /\ AppIdle

Return(value) == [call EXCEPT !.returned = TRUE, !.value = value]

\* The call ends with an exception.
Raise == [call EXCEPT !.returned = TRUE, !.raised = TRUE]

pipelineVars ==
    << pc, entry, file_size_mb, splitVars, fsVars, poolVars, wholeVars,
       all_transcriptions, path, ret, calls >>

CallCombineTranscriptions ==
    /\ call.fn = "combine_transcriptions"
    /\ ~call.returned
    /\ call' = Return(combine_transcriptions(call.args[1]))
    /\ UNCHANGED << pipelineVars, appVars >>

CallAdjustChunkTimestamps ==
    /\ call.fn = "adjust_chunk_timestamps"
    /\ ~call.returned
    /\ call' = IF AdjustRaises(call.args[1]) THEN Raise
               ELSE Return(adjust_chunk_timestamps(call.args[1], call.args[2], call.args[3]))
    /\ UNCHANGED << pipelineVars, appVars >>

CallChunkAudioFile ==
    /\ call.fn = "chunk_audio_file"
    /\ ~call.returned
    /\ call' = Return(chunk_audio_file(call.args[1], call.args[2], call.args[3]))
    /\ UNCHANGED << pipelineVars, appVars >>

CallFormatTranscriptForExport ==
    /\ call.fn = "format_transcript_for_export"
    /\ ~call.returned
    /\ call' = IF ExportRaises(call.args[1], call.args[2]) THEN Raise
               ELSE Return(format_transcript_for_export(call.args[1], call.args[2]))
    /\ UNCHANGED << pipelineVars, appVars >>

UtilNext ==
    \/ CallCombineTranscriptions
    \/ CallAdjustChunkTimestamps
    \/ CallChunkAudioFile
    \/ CallFormatTranscriptForExport

UtilSpec == UtilInit /\ [][UtilNext]_vars

\* ----------------------------------------------- process_transcription_task

\* _process_small_file on a backend that answers the upload with up and the
\* generate call with gen.
SmallFileResult(up, gen) ==
    IF ~up.ok THEN SmallFileUploadError(up.err) ELSE SmallFileTranscribe(gen)

\* A transcript the chunked path returns: two chunks, rebased and combined.
ChunkedText ==
    combine_transcriptions(<< adjust_chunk_timestamps(T1, 0, CHUNK_DURATION_MS),
                              adjust_chunk_timestamps(T2, 1, CHUNK_DURATION_MS) >>)

\* What _process_large_file does with the file: the split gives no chunk, the
\* chunked results are accepted, or it falls back to the whole file.
LargeFileCourses == { "split_failed", "accepted", "fallback" }

\* processor.process_audio(file_path, ...): the pair it returns.
ProcessAudioResult(size_mb, course, up, gen) ==
    IF LargeFile(size_mb)
    THEN CASE course = "split_failed" -> SplitFailed
           [] course = "accepted" -> Ret(Some(ChunkedText), None)
           [] OTHER -> SmallFileResult(up, gen)
    ELSE SmallFileResult(up, gen)

\* The dictionaries process_transcription_task returns.
SuccessDict(transcript_text) ==
    [success |-> TRUE, transcript |-> transcript_text, error |-> None]
ErrorDict(error) ==
    [success |-> FALSE, transcript |-> None, error |-> Some(error)]

Returns(value) == [kind |-> "return", exc |-> "none", value |-> value]
Raises(exc) == [kind |-> "raise", exc |-> exc, value |-> <<>>]
NoOutcome == [kind |-> "none", exc |-> "none", value |-> <<>>]

\* raise Exception(sanitize_error_message("Failed to create temporary file ..."))
TempFileError == << "Failed to create temporary file for audio processing" >>

\* Mutant of ExceptClause: the handler logs through a logger that exists.
ExceptClauseReturns(error_str) == Returns(ErrorDict(sanitize_error_message(error_str)))

\* `except Exception as e`: error_str = str(e), then
\* self.logger.error(...) in a module-level function, where no `self` is
\* bound: NameError leaves the handler before its return statement.
ExceptClause(error_str) == Raises("NameError")

\* Mutant of FinallyCleans: cleanup_file is not called when the task ends
\* with an exception.
FinallyCleansOnReturn(file_path, outcome) == file_path.some /\ outcome.kind = "return"

\* finally: `if file_path: cleanup_file(file_path)`
FinallyCleans(file_path, outcome) == file_path.some

\* uploaded_file.type of the files tried.
UploadedTypes == { "audio/mpeg", "audio/x-wav", "audio/wav", "audio/ogg" }

\* file_format = uploaded_file.type.split('/')[-1], 'mpeg' read as 'mp3' and
\* 'x-wav' as 'wav'.
FileFormat(type) ==
    CASE type = "audio/mpeg" -> "mp3"
      [] type = "audio/x-wav" -> "wav"
      [] type = "audio/wav" -> "wav"
      [] type = "audio/ogg" -> "ogg"

\* The uploaded files tried (type, and size in MB); the task's locals at entry.
TaskCalls ==
    { [pc |-> "create", type |-> t, file_format |-> "", file_size_mb |-> sz,
       file_path |-> None, temp_exists |-> FALSE,
       outcome |-> NoOutcome, raised_in_try |-> FALSE, error_str |-> NoError,
       cleanup_calls |-> 0, result |-> NoOutcome] :
      t \in UploadedTypes, sz \in FileSizes }

TaskInit ==
    /\ PipelineIdle
    /\ call = NoCall
    /\ session = NoSession
    /\ ui = NoUi
    /\ task \in TaskCalls

\* The start of the try block: the file format, then
\* file_path, success = create_temp_file(audio_data, uploaded_file.name)
CreateTempFile(success) ==
    /\ task.pc = "create"
    /\ task' = IF success
               THEN [task EXCEPT !.pc = "process_audio", !.file_path = Some("tmp"),
                                 !.file_format = FileFormat(task.type),
                                 !.temp_exists = TRUE]
               ELSE [task EXCEPT !.pc = "except", !.raised_in_try = TRUE,
                                 !.file_format = FileFormat(task.type),
                                 !.error_str = sanitize_error_message(TempFileError),
                                 !.outcome = Raises("Exception")]
    /\ UNCHANGED << pipelineVars, call, session, ui >>

\* str() of the exception of a prompt template that does not render.
RenderError == << "'metadata'", "is", "undefined", "/home/user" >>

\* processor.process_audio(...) and the if/else on error_message.
\* process_audio renders the prompt outside any try: an exception of
\* prompt_template.render(...) leaves it.
TaskProcessAudio(rendered, course, up, gen) ==
    /\ task.pc = "process_audio"
    /\ LET r == ProcessAudioResult(task.file_size_mb, course, up, gen) IN
       task' = IF ~rendered
               THEN [task EXCEPT !.pc = "except", !.raised_in_try = TRUE,
                                 !.error_str = RenderError,
                                 !.outcome = Raises("Exception")]
               ELSE [task EXCEPT !.pc = "finally",
                                 !.outcome = IF r.error.some
                                             THEN Returns(ErrorDict(r.error.v))
                                             ELSE Returns(SuccessDict(r.text))]
    /\ UNCHANGED << pipelineVars, call, session, ui >>

\* The except clause, entered with the exception of the try block.
TaskExcept ==
    /\ task.pc = "except"
    /\ task' = [task EXCEPT !.pc = "finally", !.outcome = ExceptClause(task.error_str)]
    /\ UNCHANGED << pipelineVars, call, session, ui >>

\* The finally clause; cleanup_file unlinks the file. Then the function
\* returns its dictionary or lets the exception go up.
TaskFinally ==
    /\ task.pc = "finally"
    /\ task' = IF FinallyCleans(task.file_path, task.outcome)
               THEN [task EXCEPT !.pc = "done", !.result = task.outcome,
                                 !.temp_exists = FALSE,
                                 !.cleanup_calls = @ + 1]
               ELSE [task EXCEPT !.pc = "done", !.result = task.outcome]
    /\ UNCHANGED << pipelineVars, call, session, ui >>

TaskNext ==
    \/ \E success \in BOOLEAN : CreateTempFile(success)
    \/ \E rendered \in BOOLEAN, course \in LargeFileCourses, up \in UploadOutcomes,
          gen \in GenerateOutcomes :
          TaskProcessAudio(rendered, course, up, gen)
    \/ TaskExcept
    \/ TaskFinally

TaskSpec == TaskInit /\ [][TaskNext]_vars

\* ------------------------------------------------------------ state_manager

\* st.session_state[key] = value
SetKey(s, key, value) == [s EXCEPT !.keys = @ \cup {key}, ![key] = value]

\* _init_state_var: the default goes in only if the key is not there.
InitKey(s, key, default_value) ==
    IF key \in s.keys THEN s ELSE SetKey(s, key, default_value)

\* ''
EmptyText == << EmptyLine >>

\* initialize_state, for the keys of the processing state, the file and the
\* transcript.
InitializedFrom(s) ==
    LET s1 == InitKey(s, "processing_status", Some("idle"))
        s2 == InitKey(s1, "error_message", None)
        s3 == InitKey(s2, "current_file_name", None)
        s4 == InitKey(s3, "transcript_text", None)
        s5 == InitKey(s4, "edited_transcript", None)
    IN  InitKey(s5, "transcript_editor_content", Some(EmptyText))

\* reset_transcript_states: update_states of the five keys.
ResetFrom(s) ==
    LET s1 == SetKey(s, "transcript_text", None)
        s2 == SetKey(s1, "edited_transcript", None)
        s3 == SetKey(s2, "transcript_editor_content", Some(EmptyText))
        s4 == SetKey(s3, "processing_status", Some("idle"))
    IN  SetKey(s4, "error_message", None)

\* SessionStateValidator.validate_processing_status
validate_processing_status(status) ==
    status \in { Some("idle"), Some("processing"), Some("complete"), Some("error") }

\* Mutant of ValidationPasses: None is validated like any other value.
ValidationPassesStrict(value) == validate_processing_status(value)

\* set_state_with_validation: `if validator and value is not None:
\* if not validator(value): return False`; a value of None is not validated.
ValidationPasses(value) == value = None \/ validate_processing_status(value)

\* Mutant of ClearsError: a message stays until the next error replaces it.
ClearsErrorNever(status) == FALSE

\* `elif status != "error": set_state("error_message", None)`
ClearsError(status) == status # Some("error")

\* `if status == "error" and error_message`: None and '' are falsy.
Truthy(error_message) == error_message.some /\ error_message.v # NoError

\* update_processing_state(status, error_message) on the session state s.
UpdatedFrom(s, status, error_message) ==
    IF ValidationPasses(status)
    THEN LET s1 == SetKey(s, "processing_status", status) IN
         IF status = Some("error") /\ Truthy(error_message)
         THEN SetKey(s1, "error_message", error_message)
         ELSE IF ClearsError(status) THEN SetKey(s1, "error_message", None)
         ELSE s1
    ELSE s

\* The statuses tried: the four valid ones, two other strings, and None.
StatusArgs ==
    { Some("idle"), Some("processing"), Some("complete"), Some("error"),
      Some("done"), Some("Error"), None }

\* The error messages tried: None, '', and two texts.
ErrorMessageArgs ==
    { None, Some(NoError), Some(<< "Quota", "exceeded" >>), Some(<< "Unauthorized" >>) }

Called(fn, args) ==
    [fn |-> fn, args |-> args, returned |-> TRUE, raised |-> FALSE, value |-> <<>>]

StateInit ==
    /\ PipelineIdle
    /\ call = NoCall
    /\ AppIdle

initialize_state ==
    /\ session' = InitializedFrom(session)
    /\ call' = Called("initialize_state", <<>>)
    /\ UNCHANGED << pipelineVars, task, ui >>

update_processing_state(status, error_message) ==
    /\ session' = UpdatedFrom(session, status, error_message)
    /\ call' = Called("update_processing_state", << status, error_message >>)
    /\ UNCHANGED << pipelineVars, task, ui >>

reset_transcript_states ==
    /\ session' = ResetFrom(session)
    /\ call' = Called("reset_transcript_states", <<>>)
    /\ UNCHANGED << pipelineVars, task, ui >>

StateNext ==
    \/ initialize_state
    \/ \E status \in StatusArgs, error_message \in ErrorMessageArgs :
          update_processing_state(status, error_message)
    \/ reset_transcript_states

StateSpec == StateInit /\ [][StateNext]_vars

\* --------------------------------------------------------------------- main

\* str(exception) when the upload cannot be written to a temporary file.
OsError == << "No", "space", "left", "on", "device" >>

\* error_message_init of initialize_gemini when it returns no client.
InitError == << "GEMINI_API_KEY", "not", "found" >>

ClientError == << "Gemini client not initialized." >>

\* The files the user uploads: small and large ones, under two names.
Uploads ==
    { [name |-> "a.mp3", type |-> "audio/mpeg", size_mb |-> LargeFileThresholdMB],
      [name |-> "a.mp3", type |-> "audio/mpeg", size_mb |-> LargeFileThresholdMB + 1],
      [name |-> "b.wav", type |-> "audio/x-wav", size_mb |-> LargeFileThresholdMB + 1] }

\* current_file_name == uploaded_file.name and processing_status in
\* ["processing", "complete"]
BusyWith(s, file) ==
    /\ s.current_file_name = Some(file.name)
    /\ s.processing_status \in { Some("processing"), Some("complete") }

\* `if not client:` after initialize_gemini.
AfterClientInit(s, client) ==
    IF client THEN s
    ELSE SetKey(SetKey(s, "processing_status", Some("error")),
                "error_message", Some(InitError))

\* The trigger block: the assignments before its st.rerun().
Triggered(s, file) ==
    LET s1 == SetKey(s, "processing_status", Some("processing"))
        s2 == SetKey(s1, "current_file_name", Some(file.name))
        s3 == SetKey(s2, "transcript_text", None)
        s4 == SetKey(s3, "edited_transcript", None)
        s5 == SetKey(s4, "error_message", None)
    IN  SetKey(s5, "transcript_editor_content", Some(EmptyText))

\* The condition of the processing block.
EntersProcessing(s, uploaded) ==
    /\ s.processing_status = Some("processing")
    /\ uploaded.some
    /\ s.current_file_name = Some(uploaded.v.name)

\* The first assignments of the result to the session state.
Stored(s, text) ==
    LET s1 == SetKey(s, "transcript_text", text)
        s2 == SetKey(s1, "edited_transcript", text)
        s3 == SetKey(s2, "transcript_editor_content", text)
    IN  SetKey(s3, "processing_status", Some("complete"))

\* The except clause of the processing block.
Failed(s, error_str) ==
    SetKey(SetKey(s, "processing_status", Some("error")),
           "error_message", Some(error_str))

\* process_chunk_worker((i, chunk_path)): None on any exception.
process_chunk_worker(gen, i) ==
    IF ~gen.ok THEN None
    ELSE LET x == ExtractText(gen.resp) IN
         IF x.raised \/ ~x.value.some \/ AdjustRaises(x.value.v) THEN None
         ELSE Some(adjust_chunk_timestamps(x.value.v, i, CHUNK_DURATION_MS))

\* [res for res in results if res is not None]
Successes(res) ==
    LET kept == SelectSeq(res, LAMBDA r : r.some) IN
    [k \in 1..Len(kept) |-> kept[k].v]

MainInit ==
    /\ PipelineIdle
    /\ call = NoCall
    /\ AppIdle

\* One run of main() up to the processing block: the session keys, the
\* client, the uploader and the button, the trigger block. The button is
\* there for a file the session is not busy with; a run st.rerun() started
\* has the file of the run before and no click.
ScriptRun(client, uploaded, pressed) ==
    /\ ui.pc \in {"idle", "rerun"}
    /\ ui.pc = "rerun" => (uploaded = ui.uploaded /\ ~pressed)
    /\ LET s1 == InitializedFrom(session)
           s2 == AfterClientInit(s1, client)
           process_button == pressed /\ uploaded.some /\ ~BusyWith(s2, uploaded.v)
           fresh == [NoUi EXCEPT !.uploaded = uploaded, !.client = client]
       IN  /\ pressed => uploaded.some /\ ~BusyWith(s2, uploaded.v)
           /\ IF process_button
              THEN /\ session' = Triggered(s2, uploaded.v)
                   /\ ui' = [fresh EXCEPT !.pc = "rerun"]
              ELSE /\ session' = s2
                   /\ ui' = [fresh EXCEPT !.pc = IF EntersProcessing(s2, uploaded)
                                                  THEN "try" ELSE "idle"]
    /\ UNCHANGED << pipelineVars, call, task >>

\* The processing block down to `large_file`: the temporary file, the client
\* check, the prompt.
PrepareRequest(saved, rendered) ==
    /\ ui.pc = "try"
    /\ ui' = IF ~saved
             THEN [ui EXCEPT !.pc = "except", !.error_str = OsError]
             ELSE IF ~ui.client
             THEN [ui EXCEPT !.pc = "except", !.file_path = TRUE,
                             !.error_str = IF session.error_message.some
                                              /\ session.error_message.v # NoError
                                           THEN session.error_message.v
                                           ELSE ClientError]
             ELSE IF ~rendered
             THEN [ui EXCEPT !.pc = "except", !.file_path = TRUE,
                             !.error_str = RenderError]
             ELSE [ui EXCEPT !.file_path = TRUE,
                             !.pc = IF ui.uploaded.v.size_mb > LargeFileThresholdMB
                                    THEN "chunk" ELSE "small"]
    /\ UNCHANGED << pipelineVars, call, task, session >>

\* chunk_audio_file answers ([], 0), or the paths it could export and the
\* number of chunks of the audio.
ChunkAudio(n, exported) ==
    /\ ui.pc = "chunk"
    /\ exported <= n
    /\ exported = 0 => n = 0
    /\ ui' = IF n = 0
             THEN [ui EXCEPT !.pc = "except",
                             !.error_str = << "Failed to split audio file." >>]
             ELSE [ui EXCEPT !.pc = "workers", !.num_chunks = n,
                             !.chunk_paths = exported, !.chunk_files = exported]
    /\ UNCHANGED << pipelineVars, call, task, session >>

\* The backend as a chunk worker meets it.
WorkerOutcomes ==
    { g \in ChunkGenerateOutcomes : g.ok => g.resp.direct \in {"text", "none"} }

\* The executor block and the if/else after it.
RunWorkers ==
    /\ ui.pc = "workers"
    /\ \E gens \in [1..ui.chunk_paths -> WorkerOutcomes] :
       LET mapped == [i \in 1..ui.chunk_paths |-> process_chunk_worker(gens[i], i - 1)]
           texts == Successes(mapped)
       IN  ui' = IF Accept(texts, ui.num_chunks)
                 THEN [ui EXCEPT !.pc = "store", !.all_transcriptions = texts,
                                 !.combined_transcription =
                                     Some(combine_transcriptions(texts))]
                 ELSE [ui EXCEPT !.pc = "fallback", !.all_transcriptions = texts]
    /\ UNCHANGED << pipelineVars, call, task, session >>

\* The fallback: the whole file uploaded and transcribed.
FallbackTranscribe(up, gen) ==
    /\ ui.pc = "fallback"
    /\ ui' = IF ~up.ok
             THEN [ui EXCEPT !.pc = "except", !.error_str = up.err]
             ELSE IF ~gen.ok
             THEN [ui EXCEPT !.pc = "except", !.error_str = gen.err]
             ELSE LET x == ExtractText(gen.resp) IN
                  IF x.raised
                  THEN [ui EXCEPT !.pc = "except", !.error_str = ExtractErr]
                  ELSE [ui EXCEPT !.pc = "store", !.combined_transcription = x.value]
    /\ UNCHANGED << pipelineVars, call, task, session >>

\* 'Store results in session state', the two clean-ups and st.rerun().
StoreResults ==
    /\ ui.pc = "store"
    /\ session' = Stored(session, ui.combined_transcription)
    /\ ui' = [ui EXCEPT !.pc = "rerun", !.chunk_files = 0, !.file_path = FALSE,
                        !.ended = "stored"]
    /\ UNCHANGED << pipelineVars, call, task >>

\* The small-file branch, the clean-up and st.rerun().
SmallFileBranch(gen) ==
    /\ ui.pc = "small"
    /\ LET x == ExtractText(gen.resp) IN
       IF ~gen.ok \/ x.raised
       THEN /\ ui' = [ui EXCEPT !.pc = "except",
                                !.error_str = IF ~gen.ok THEN gen.err ELSE ExtractErr]
            /\ UNCHANGED session
       ELSE /\ session' = Stored(session, x.value)
            /\ ui' = [ui EXCEPT !.pc = "rerun", !.file_path = FALSE,
                                !.ended = "stored"]
    /\ UNCHANGED << pipelineVars, call, task >>

\* `except Exception as e:` of the processing block, its clean-ups and
\* st.rerun().
ProcessingExcept ==
    /\ ui.pc = "except"
    /\ session' = Failed(session, ui.error_str)
    /\ ui' = [ui EXCEPT !.pc = "rerun", !.chunk_files = 0, !.file_path = FALSE,
                        !.ended = "except"]
    /\ UNCHANGED << pipelineVars, call, task >>

MainNext ==
    \/ \E client \in BOOLEAN, uploaded \in {None} \cup { Some(f) : f \in Uploads },
          pressed \in BOOLEAN :
          ScriptRun(client, uploaded, pressed)
    \/ \E saved \in BOOLEAN, rendered \in BOOLEAN : PrepareRequest(saved, rendered)
    \/ \E n \in 0..MaxUiChunks, exported \in 0..MaxUiChunks : ChunkAudio(n, exported)
    \/ RunWorkers
    \/ \E up \in UploadOutcomes, gen \in GenerateOutcomes : FallbackTranscribe(up, gen)
    \/ StoreResults
    \/ \E gen \in GenerateOutcomes : SmallFileBranch(gen)
    \/ ProcessingExcept

MainSpec == MainInit /\ [][MainNext]_vars

\* ------------------------------------------------------------------ claims

\* The jobs whose chunk was transcribed successfully.
Succeeded == { k \in Jobs : results[k].set /\ results[k].value.some }
AfterDispatch == calls.dispatch = 1 /\ pc # "dispatch"
Decided == path # "none"

WholeFileOutcome ==
    IF ~whole_up.ok THEN SmallFileUploadError(whole_up.err)
    ELSE SmallFileTranscribe(whole_gen)

\* C2: when the fallback is taken, process_audio returns exactly the outcome
\* of the one whole-file call, its text or its error; no chunk transcript is
\* in it and combine_transcriptions is not called.
C2_FallbackReturnsWholeFileOutcome ==
    (pc = "done" /\ path = "fallback") =>
        /\ ret = WholeFileOutcome
        /\ calls.combine = 0
        /\ ret.text.some => ret.text = ExtractText(whole_gen.resp).value

C2_Witness ==
    /\ pc = "done"
    /\ path = "fallback"
    /\ all_transcriptions # <<>>
    /\ ~ret.text.some
    /\ ret.error.some

RECURSIVE TextsByChunk(_)
\* The successful chunks' transcripts by ascending chunk position, up to job n.
TextsByChunk(n) ==
    IF n = 0 THEN <<>>
    ELSE LET r == { s \in Jobs : results[s].set /\ results[s].chunk = n
                                 /\ results[s].value.some }
         IN  TextsByChunk(n - 1)
             \o (IF r = {} THEN <<>> ELSE << results[CHOOSE s \in r : TRUE].value.v >>)

\* C3: whatever the completion order of the workers, every result sits in the
\* slot of its own chunk, so the list given to combine_transcriptions holds
\* the successful chunks in strictly ascending chunk order and the stitched
\* transcript depends on the per-chunk results only.
C3_ResultsInChunkOrder ==
    /\ \A s \in Jobs : results[s].set => results[s].chunk = s
    /\ (AfterDispatch /\ ~ret.raised) =>
          LET ok == NotNone(results) IN
          /\ \A i, j \in 1..Len(ok) : i < j => ok[i].chunk < ok[j].chunk
          /\ all_transcriptions = TextsByChunk(Len(results))
          /\ path = "chunked" =>
                ret.text = Some(combine_transcriptions(TextsByChunk(Len(results))))

\* A later chunk has completed, successfully, before an earlier one.
C3_Witness ==
    /\ pc = "dispatch"
    /\ \E j, k \in Jobs :
          /\ j < k
          /\ job_state[j] \in {"started", "uploaded"}
          /\ job_state[k] = "done"
          /\ results[k].value.some

\* C4: a failing chunk gives a failed result for that chunk only: no exception
\* leaves _process_single_chunk, and every submitted chunk has been attempted
\* and has its result when the dispatcher returns.
C4_FailureIsolation ==
    /\ ~ret.raised
    /\ \A k \in Jobs : ~results[k].raised
    /\ \A k \in Jobs : job_state[k] = "done" => results[k].set
    /\ AfterDispatch =>
          \A k \in Jobs :
             /\ job_state[k] = "done"
             /\ chunk_uploads[k] = 1
             /\ results[k].set /\ results[k].chunk = k

\* A chunk failed on an unexpected exception and a later chunk succeeded.
C4_Witness ==
    /\ AfterDispatch
    /\ \E j, k \in Jobs :
          /\ j < k
          /\ chunk_generates[j] = 1
          /\ ~results[j].value.some
          /\ results[k].value.some

\* C5: on every exit of the large-file path after the splitter returned
\* chunks, cleanup_chunks is called exactly once and afterwards no chunk file
\* and no chunk directory of the call remains.
C5_CleanupLeavesNothing ==
    (pc = "done" /\ calls.dispatch = 1) =>
        /\ calls.cleanup = 1
        /\ files = {}
        /\ ~dir_exists

\* The whole-file call raised in the backend or in the text extraction.
WholeFileCallFailed ==
    \/ ~whole_up.ok
    \/ ~whole_gen.ok
    \/ ExtractText(whole_gen.resp).raised

\* C6: for a large file, process_audio returns an error only if the splitter
\* gave no usable chunk, or the chunks were below the threshold and the
\* whole-file fallback failed too; in every other case it returns a non-null
\* transcript and no error.
C6_OnlyTwoFatalCases ==
    (pc = "done" /\ entry = "process_audio" /\ file_size_mb > 20) =>
        LET noChunks == chunk_paths = <<>>
            bothFailed == path = "fallback" /\ WholeFileCallFailed
        IN  /\ ret.error.some => (noChunks \/ bothFailed)
            /\ ~(noChunks \/ bothFailed) => (ret.text.some /\ ~ret.error.some)

ChunkBackendCalls ==
    { k \in Jobs : chunk_uploads[k] > 0 \/ chunk_generates[k] > 0 }

\* C7: process_audio routes by size: up to and including 20 MB it makes
\* exactly one whole-file attempt and never calls the splitter; above 20 MB
\* the splitter is called before any backend call.
C7_RoutingBySize ==
    entry = "process_audio" =>
        /\ file_size_mb <= 20 =>
              /\ calls.split = 0 /\ calls.dispatch = 0 /\ ChunkBackendCalls = {}
              /\ path = "none"
              /\ calls.upload = (IF pc = "small_upload" THEN 0 ELSE 1)
        /\ file_size_mb > 20 =>
              /\ pc # "small_upload" \/ path = "fallback"
              /\ (calls.upload > 0 \/ calls.generate > 0 \/ ChunkBackendCalls # {}
                  \/ pc \in {"small_upload", "small_generate"})
                    => calls.split = 1

C7_Witness ==
    /\ entry = "process_audio"
    /\ file_size_mb = 20
    /\ pc = "done"
    /\ calls.upload = 1
    /\ calls.split = 0

\* C8: within one process_audio call each chunk is uploaded at most once and
\* transcribed at most once and the whole-file call is made at most once: a
\* failed chunk is not retried.
C8_NoRetry ==
    /\ \A k \in Jobs : chunk_uploads[k] <= 1 /\ chunk_generates[k] <= 1
    /\ \A k \in Jobs : job_state[k] = "done" => chunk_uploads[k] = 1
    /\ calls.upload <= 1 /\ calls.generate <= 1
    /\ calls.upload = 1 /\ entry = "process_audio" /\ file_size_mb > 20
          => path = "fallback"

\* A chunk failed, was tried once, and the fallback made the one retry.
C8_Witness ==
    /\ pc = "done"
    /\ path = "fallback"
    /\ calls.upload = 1
    /\ \E k \in Jobs : ~results[k].value.some /\ chunk_uploads[k] = 1

SingleCallReturned ==
    /\ pc = "done"
    /\ \/ entry = "process_audio_chunk"
       \/ entry = "process_audio" /\ file_size_mb <= 20

\* C9: every single-call transcription returns a pair (text, error) with
\* exactly one component non-null, whatever the backend does.
C9_ExactlyOneOfTextAndError ==
    SingleCallReturned => (ret.text.some <=> ~ret.error.some)

\* C10: in a single-call transcription generate is called only after the
\* upload succeeded, and an upload failure ends the call with an error and
\* no transcript.
C10_UploadBeforeGenerate ==
    /\ calls.generate > 0 => (calls.upload > 0 /\ whole_up.ok)
    /\ pc \in {"small_generate", "pac_generate"} => (calls.upload > 0 /\ whole_up.ok)
    /\ (calls.upload > 0 /\ ~whole_up.ok) =>
          /\ calls.generate = 0
          /\ pc \in {"cleanup", "done"}
          /\ ~ret.text.some /\ ret.error.some
    /\ \A k \in Jobs : chunk_generates[k] > 0 => chunk_uploads[k] > 0

C10_Witness ==
    /\ pc = "done"
    /\ calls.upload = 1
    /\ ~whole_up.ok
    /\ calls.generate = 0
    /\ ret.error.some

\* The kind of an upload error, by the fixed text the message starts with.
UploadErrorKind(error) ==
    CASE error[1] \in { "API authentication error. Please check your API key.",
                        "API authentication error: " } -> "Auth"
      [] error[1] \in { "API quota exceeded. Please try again later.",
                        "API quota exceeded: " } -> "QuotaExceeded"
      [] error[1] \in { "File upload failed: ", "Chunk upload failed: " } -> "UploadFailed"
      [] OTHER -> "Other"

\* The kind the failure message calls for: 'unauthorized' or 'authentication'
\* first, then 'quota', else upload-failed.
ClaimedUploadErrorKind(raw) ==
    IF ContainsLower(raw, "unauthorized") \/ ContainsLower(raw, "authentication")
    THEN "Auth"
    ELSE IF ContainsLower(raw, "quota") THEN "QuotaExceeded" ELSE "UploadFailed"

\* C11: when the upload fails, in process_audio_chunk and in
\* _process_small_file alike, the returned error is the authentication error
\* if the failure message contains 'unauthorized' or 'authentication'
\* (whatever the case), else the quota error if it contains 'quota', else the
\* upload-failed error.
C11_UploadErrorClassification ==
    (calls.upload > 0 /\ ~whole_up.ok) =>
        /\ ret.error.some
        /\ UploadErrorKind(ret.error.v) = ClaimedUploadErrorKind(whole_up.err)

\* The text the extraction is to yield: the direct field if it holds text,
\* else candidates[0].content.parts[0].text if that holds text.
ClaimedText(r) ==
    IF r.direct = "text" THEN Some(r.direct_text)
    ELSE IF r.nested = "text" THEN Some(r.nested_text)
    ELSE None

\* C12: after a successful generate, the single call returns the direct text
\* if there is one, else the nested text if there is one, and if neither
\* yields text it returns an error (the extraction error in
\* process_audio_chunk) and no transcript.
C12_ExtractionOrder ==
    (calls.generate = 1 /\ whole_gen.ok) =>
        LET t == ClaimedText(whole_gen.resp) IN
        IF t.some
        THEN ret = Ret(t, None)
        ELSE /\ ~ret.text.some
             /\ ret.error.some
             /\ entry = "process_audio_chunk" =>
                    ret.error.v[1] = "Could not extract transcript text: "

RECURSIVE AscendingSeq(_)
\* The members of a set of numbers, in ascending order.
AscendingSeq(S) ==
    IF S = {} THEN <<>>
    ELSE LET m == CHOOSE x \in S : \A y \in S : y <= x
         IN  AscendingSeq(S \ {m}) \o << m >>

\* C13: a failed export does not end the split: every chunk index is
\* attempted, and chunk_paths holds exactly the chunks whose export succeeded,
\* in ascending index order, during the loop and when the splitter returns
\* them.
C13_ExportFailureDoesNotAbort ==
    /\ pc = "export" =>
          chunk_paths = AscendingSeq((0..(export_i - 1)) \ export_failed)
    /\ (calls.split = 1 /\ pc # "export") =>
          /\ export_i = split_num_chunks
          /\ chunk_paths = AscendingSeq((0..(split_num_chunks - 1)) \ export_failed)
    /\ pc = "dispatch" => Len(job_state) = split_num_chunks - Cardinality(export_failed)

\* One export failed and a later chunk was exported and handed to the pool.
C13_Witness ==
    /\ pc = "dispatch"
    /\ \E i \in export_failed : \E j \in Range(chunk_paths) : i < j
    /\ \E i \in export_failed : \E j \in Range(chunk_paths) : j < i

EndLines(t) == { i \in 1..Len(t) : t[i].kind = "end" }

\* C17: when the chunked result is accepted and the backend's transcript of
\* the last successful chunk has an '[END]' line (every chunk transcript of
\* the backend is T1, which ends with one), the transcript returned has
\* '[END]' exactly once, as its last line.
C17_ChunkedResultEndsWithEnd ==
    (pc = "done" /\ path = "chunked" /\ EndLines(T1) # {}) =>
        /\ ret.text.some
        /\ EndLines(ret.text.v) = { Len(ret.text.v) }

\* ceil(a / b) for a >= 0 and b > 0
Ceil(a, b) == (a + b - 1) \div b

ChunkAudioFileReturned == call.fn = "chunk_audio_file" /\ call.returned

\* C15 as stated: num_chunks = ceil(total_duration_ms / chunk_duration_ms),
\* and at least 1, for every total_duration_ms >= 0 and chunk_duration_ms > 0,
\* with as many paths when every export succeeds.
C15_NumChunksCeilAtLeastOne ==
    (ChunkAudioFileReturned /\ call.args[3] = {}) =>
        LET c == Ceil(call.args[1], call.args[2])
            expected == IF c < 1 THEN 1 ELSE c
        IN  /\ NumChunks(call.args[1], call.args[2]) = expected
            /\ call.value.num_chunks = expected
            /\ Len(call.value.chunk_paths) = expected

\* C15, amended: num_chunks = ceil(total_duration_ms / chunk_duration_ms) for
\* every total_duration_ms >= 0 and chunk_duration_ms > 0, with no minimum: a
\* zero-length audio has 0 chunks and the call returns ([], 0). When every
\* export succeeds there are as many paths as chunks: 150000 ms in 60000 ms
\* chunks gives 3 chunks and 3 paths.
C15_NumChunksCeil ==
    ChunkAudioFileReturned =>
        LET total == call.args[1]
            d == call.args[2]
            n == NumChunks(total, d)
        IN  /\ n = Ceil(total, d)
            /\ (n - 1) * d < total /\ total <= n * d
            /\ total = 0 => (n = 0 /\ call.value = [chunk_paths |-> <<>>, num_chunks |-> 0])
            /\ (call.args[3] = {} /\ total > 0) =>
                  /\ call.value.num_chunks = n
                  /\ call.value.chunk_paths = [k \in 1..n |-> k - 1]
            /\ (total = 150000 /\ d = 60000 /\ call.args[3] = {}) =>
                  /\ call.value.num_chunks = 3
                  /\ Len(call.value.chunk_paths) = 3

C15_Witness ==
    /\ ChunkAudioFileReturned
    /\ call.args = << 150000, 60000, {} >>
    /\ call.value.num_chunks = 3
    /\ call.value.chunk_paths = << 0, 1, 2 >>

CombineReturned == call.fn = "combine_transcriptions" /\ call.returned

\* The '[END]' lines of the output are those of the last chunk, line for line.
EndsAreLastChunks(chunks, out) ==
    LET last == chunks[Len(chunks)]
        off == Len(out) - Len(last)
    IN  /\ off >= 0
        /\ SubSeq(out, off + 1, Len(out)) = last
        /\ \A i \in 1..off : out[i].kind # "end"

\* C16 as stated: for every list of chunk transcripts the output of
\* combine_transcriptions has at most one line that is '[END]' once trimmed,
\* and if a chunk had one, the output's marker is the last chunk's; none of a
\* non-last chunk survives.
C16_AtMostOneEnd ==
    CombineReturned =>
        LET chunks == call.args[1]
            out == call.value
        IN  /\ Cardinality(EndLines(out)) <= 1
            /\ (\E c \in 1..Len(chunks) : EndLines(chunks[c]) # {}) =>
                  EndsAreLastChunks(chunks, out)

\* C16, amended: for every list of chunk transcripts the lines of the output
\* that are '[END]' once trimmed are exactly those of the last chunk, so there
\* is at most one when the last chunk has at most one; none of a non-last
\* chunk survives.
C16_OnlyLastChunksEnd ==
    CombineReturned =>
        LET chunks == call.args[1]
            out == call.value
        IN  IF chunks = <<>> THEN EndLines(out) = {}
            ELSE /\ EndsAreLastChunks(chunks, out)
                 /\ Cardinality(EndLines(out)) = Cardinality(EndLines(chunks[Len(chunks)]))
                 /\ Cardinality(EndLines(chunks[Len(chunks)])) <= 1 =>
                        Cardinality(EndLines(out)) <= 1

\* Two chunks with an '[END]' each: the output has the second one's only.
C16_Witness ==
    /\ CombineReturned
    /\ Len(call.args[1]) = 2
    /\ EndLines(call.args[1][1]) # {}
    /\ Cardinality(EndLines(call.args[1][2])) = 1
    /\ EndLines(call.value) = { Len(call.value) }

\* C18: combine_transcriptions([t]) is t itself for every transcript t, its
\* '[END]' lines included, and combine_transcriptions([]) is the empty string.
C18_SingleChunkIdentity ==
    CombineReturned =>
        /\ Len(call.args[1]) = 1 => call.value = call.args[1][1]
        /\ call.args[1] = <<>> => call.value = << EmptyLine >>

\* A single transcript with an indented '[END]' line came back as it was.
C18_Witness ==
    /\ CombineReturned
    /\ Len(call.args[1]) = 1
    /\ \E i \in EndLines(call.args[1][1]) : call.args[1][1][i] = IndentedEndLine
    /\ call.value = call.args[1][1]

AdjustReturned == call.fn = "adjust_chunk_timestamps" /\ call.returned

\* The lines adjust_chunk_timestamps has an output line for, in order.
KeptLines(t) == SelectSeq(t, LAMBDA l : l.kind \notin {"blank", "end"})

\* (chunk_index * chunk_duration_ms) div 60000
BaseMinutes(chunk_index, chunk_duration_ms) ==
    (chunk_index * chunk_duration_ms) \div 60000

\* hours*3600 + minutes*60 + seconds of a 3-part timestamp
TotalSeconds(ts) == IntOf(ts[1]) * 3600 + IntOf(ts[2]) * 60 + IntOf(ts[3])

\* C19: a line with a 2-part [MM:SS] timestamp comes out with a 2-part
\* timestamp whose minutes are the original minutes plus base_minutes,
\* beyond 59 if need be, with no hours field, and whose seconds are the
\* original seconds.
C19_TwoPartMinutesGrow ==
    AdjustReturned =>
        LET kept == KeptLines(call.args[1])
            base == BaseMinutes(call.args[2], call.args[3])
            out == call.value
        IN  \A j \in 1..Len(kept) :
               (kept[j].kind = "ts" /\ Len(kept[j].ts) = 2) =>
                  /\ out[j].kind = "ts"
                  /\ Len(out[j].ts) = 2
                  /\ IntOf(out[j].ts[1]) = IntOf(kept[j].ts[1]) + base
                  /\ IntOf(out[j].ts[2]) = IntOf(kept[j].ts[2])

Unparseable(line) ==
    line.kind = "text" \/ (line.kind = "ts" /\ TimestampError(line.ts) # "none")

ValidPadded(ts) ==
    /\ Len(ts) \in {2, 3}
    /\ \A i \in 1..Len(ts) : Len(ts[i]) = 2
    /\ IntOf(ts[Len(ts) - 1]) < 60
    /\ IntOf(ts[Len(ts)]) < 60

NoOverflow(t, n) ==
    \A i \in 1..Len(t) :
       (t[i].kind = "ts" /\ TimestampError(t[i].ts) = "none") =>
          IntOf(t[i].ts[Len(t[i].ts) - 1]) + n < 60

\* Rebasing the returned transcript by chunk index b gives what rebasing the
\* argument by a + b gives, a being the chunk index of the call.
RebaseAdds(b) ==
    LET t == call.args[1]
        a == call.args[2]
        d == call.args[3]
        twice == BaseMinutes(a, d) + BaseMinutes(b, d)
        once == BaseMinutes(a + b, d)
    IN  NoOverflow(t, IF twice > once THEN twice ELSE once) =>
           adjust_chunk_timestamps(call.value, b, d) = adjust_chunk_timestamps(t, a + b, d)

ExportReturned == call.fn = "format_transcript_for_export" /\ call.returned

\* {"transcript": []}
EmptyJsonDocument ==
    [doc |-> "json", lines |-> <<>>, captions |-> <<>>, transcript |-> <<>>]

\* C24: format_transcript_for_export of the empty transcript with format
\* 'json' returns the JSON document {"transcript": []}, not the empty string.
C24_EmptyTranscriptJson ==
    (ExportReturned /\ call.args = << << ExportEmptyLine >>, "json" >>) =>
        /\ ~call.raised
        /\ call.value = EmptyJsonDocument
        /\ call.value # EmptyString

\* C25: format_transcript_for_export never raises, for any transcript and any
\* of the formats txt, srt, json: it returns a document.
C25_ExportNeverRaises ==
    ExportReturned =>
        /\ ~call.raised
        /\ call.value.doc \in {"str", "srt", "json"}

\* The lines with a 2-part or 3-part numeric timestamp.
ParseableLines(t) ==
    SelectSeq(t, LAMBDA l : l.kind = "ts" /\ TimestampError(l.ts) = "none")

\* The captions of an SRT document, the records of a JSON document.
Entries(v) ==
    IF v.doc = "srt" THEN v.captions
    ELSE IF v.doc = "json" THEN v.transcript ELSE <<>>

\* C26: when the SRT or JSON export returns, it has an entry for each line
\* with a 2-part or 3-part numeric timestamp and none for a line whose bracket
\* is anything else, and the SRT captions are numbered 1, 2, ... in order.
C26_UnparseableSkipped ==
    (ExportReturned /\ ~call.raised /\ call.args[2] \in {"srt", "json"}) =>
        LET p == ParseableLines(call.args[1])
            e == Entries(call.value)
        IN  /\ Len(e) = Len(p)
            /\ call.value.doc = "srt" => \A i \in 1..Len(e) : e[i].index = i

\* The instant an SRT time denotes, in seconds.
SrtSeconds(time) ==
    time.days * 86400 + IntOf(time.hours) * 3600 + IntOf(time.minutes) * 60
    + IntOf(time.seconds)

\* The captions are those of the parseable lines of t, in order: numbered
\* from 1, each starting at its line's timestamp and ending 3 seconds later.
CaptionsFollow(t, captions) ==
    LET p == ParseableLines(t) IN
    /\ Len(captions) = Len(p)
    /\ \A i \in 1..Len(p) :
          /\ captions[i].index = i
          /\ SrtSeconds(captions[i].start) = PartsSeconds(p[i].ts)
          /\ SrtSeconds(captions[i].end) = PartsSeconds(p[i].ts) + 3
          /\ captions[i].content = Strip(p[i].content)

\* C27: the SRT export returns one caption per parseable line that is not
\* '[END]', in input order, numbered 1, 2, 3, ..., starting at the line's own
\* timestamp and ending exactly 3 seconds later whatever the next line is.
C27_OneCaptionPerParseableLine ==
    (ExportReturned /\ call.args[2] = "srt") =>
        /\ ~call.raised
        /\ CaptionsFollow(call.args[1], Entries(call.value))

\* HH:MM:SS,000: two digits of hours and nothing before them, minutes and
\* seconds of two digits below 60, milliseconds 000.
SrtShape(time) ==
    /\ time.days = 0
    /\ Len(time.hours) = 2
    /\ Len(time.minutes) = 2 /\ IntOf(time.minutes) < 60
    /\ Len(time.seconds) = 2 /\ IntOf(time.seconds) < 60
    /\ time.millis = << 0, 0, 0 >>

\* MM:SS or HH:MM:SS with two-digit fields and seconds below 60.
TwoDigitFields(ts) ==
    /\ Len(ts) \in {2, 3}
    /\ \A i \in 1..Len(ts) : Len(ts[i]) = 2
    /\ IntOf(ts[Len(ts)]) < 60

\* C28: in the SRT output, the start and the end time of the caption of a
\* line with a two-digit MM:SS or HH:MM:SS timestamp (seconds below 60) have
\* the shape HH:MM:SS,000, the start denotes the instant of the timestamp and
\* the end the instant 3 seconds later.
C28_SrtTimeShape ==
    (ExportReturned /\ ~call.raised /\ call.args[2] = "srt") =>
        LET m == Matched(call.args[1])
            c == Entries(call.value)
        IN  \A i \in 1..Len(c) :
               TwoDigitFields(m[i].ts) =>
                  /\ SrtShape(c[i].start)
                  /\ SrtShape(c[i].end)
                  /\ SrtSeconds(c[i].start) = PartsSeconds(m[i].ts)
                  /\ SrtSeconds(c[i].end) = PartsSeconds(m[i].ts) + 3

JsonReturned == ExportReturned /\ call.args[2] = "json" /\ call.value.doc = "json"

StartsAndEndsWithBrackets(c) == c # <<>> /\ c[1] = "[" /\ c[Len(c)] = "]"
HasColon(c) == \E i \in 1..Len(c) : c[i] = ":"
FirstColon(c) == CHOOSE i \in 1..Len(c) : c[i] = ":" /\ \A j \in 1..(i - 1) : c[j] # ":"
BeforeColon(c) == Strip(SubSeq(c, 1, FirstColon(c) - 1))
AfterColon(c) == Strip(SubSeq(c, FirstColon(c) + 1, Len(c)))

C30_ErrorsSanitized ==
    ret.error.some =>
        \A i \in 1..Len(ret.error.v) : ret.error.v[i] \notin SecretTokens

TaskDone == task.pc = "done"

\* C31: process_transcription_task ends by returning a dictionary, never with
\* an exception: success with the transcript when process_audio returned no
\* error, and failure with a sanitized message when process_audio returned an
\* error, when the temporary file could not be made or when anything raised.
C31_TaskAlwaysReturnsDict ==
    TaskDone =>
        /\ task.result.kind = "return"
        /\ task.raised_in_try =>
              /\ ~task.result.value.success
              /\ task.result.value.error = Some(sanitize_error_message(task.error_str))
        /\ task.result.value.success <=> ~task.result.value.error.some

C32_RebasedByOriginalIndex ==
    \A k \in 1..Len(results) :
       (results[k].set /\ results[k].value.some /\ k <= Len(chunk_paths)) =>
          results[k].value.v =
             adjust_chunk_timestamps(T1, chunk_paths[k], CHUNK_DURATION_MS)

\* C33: never more than MAX_WORKERS chunk jobs are in progress, however
\* many chunks there are, and a chunk job is in progress only inside
\* _process_chunks_parallel.
C33_AtMostMaxWorkers ==
    /\ Cardinality(InProgress) <= MAX_WORKERS
    /\ InProgress # {} => pc = "dispatch"
    /\ \A k \in Jobs : chunk_uploads[k] > 0 => job_state[k] # "queued"

\* MAX_WORKERS jobs are in progress and one more waits in the queue.
C33_Witness ==
    /\ Cardinality(InProgress) = MAX_WORKERS
    /\ \E k \in Jobs : job_state[k] = "queued"

\* The whole-file call of the fallback has returned: its upload failed, or
\* its generate call has been made.
FallbackReturned == calls.upload = 1 /\ (~whole_up.ok \/ calls.generate = 1)

\* C35: cleanup_chunks starts only when every chunk job has finished and,
\* on the fallback path, the whole-file call has returned; no job is queued
\* or running while or after the chunk files are deleted.
C35_CleanupAfterWorkers ==
    (pc = "cleanup" \/ calls.cleanup > 0) =>
        /\ \A k \in Jobs : job_state[k] = "done"
        /\ \A k \in Jobs : results[k].set
        /\ path = "fallback" => FallbackReturned

\* cleanup_chunks has run after a fallback on a file of several chunks.
C35_Witness ==
    /\ calls.cleanup = 1
    /\ path = "fallback"
    /\ Len(job_state) >= 2
    /\ pc = "done"
    /\ files = {}

\* The position of the first '[END]' line of t.
FirstEnd(t) == CHOOSE e \in EndLines(t) : \A j \in EndLines(t) : e <= j

\* C34: of a text with an '[END]' line, adjust_chunk_timestamps returns the
\* rebased lines that come before the first '[END]': the marker and all that
\* follows it are dropped.
C34_DropsEndAndRest ==
    (AdjustReturned /\ ~call.raised /\ EndLines(call.args[1]) # {}) =>
        LET t == call.args[1]
            before == SubSeq(t, 1, FirstEnd(t) - 1)
        IN  /\ \A j \in 1..Len(call.value) : call.value[j].kind # "end"
            /\ call.value = adjust_chunk_timestamps(before, call.args[2], call.args[3])

\* The step is a call of update_processing_state with a status that
\* validate_processing_status turns down.
InvalidStatusCall ==
    /\ call'.fn = "update_processing_state"
    /\ ~validate_processing_status(call'.args[1])

\* The keys initialize_state puts in; no other call puts in current_file_name.
StateKeys ==
    { "processing_status", "error_message", "current_file_name",
      "transcript_text", "edited_transcript", "transcript_editor_content" }

\* initialize_state has run.
Initialized == session.keys = StateKeys

\* C37: update_processing_state called with a status outside {idle,
\* processing, complete, error} changes neither processing_status nor
\* error_message, and so, from the initialized state on, processing_status is
\* always one of the four valid values.
C37_InvalidStatusChangesNothing ==
    /\ [][Initialized /\ InvalidStatusCall =>
            /\ session'.processing_status = session.processing_status
            /\ session'.error_message = session.error_message]_vars
    /\ [](Initialized => validate_processing_status(session.processing_status))

\* C38: after any sequence of initialize_state, update_processing_state and
\* reset_transcript_states calls, error_message is non-null only while
\* processing_status is 'error'.
C38_ErrorMessageOnlyWithErrorStatus ==
    session.error_message.some => session.processing_status = Some("error")

\* An error with its message has been recorded and a later accepted update
\* to 'complete' has cleared the message.
C38_Witness ==
    /\ call.fn = "update_processing_state"
    /\ call.args = << Some("complete"), Some(<< "Unauthorized" >>) >>
    /\ session.processing_status = Some("complete")
    /\ session.error_message = None
    /\ Initialized

\* The processing block of main() has just ended, by its st.rerun().
BlockEnded == ui.pc = "rerun" /\ ui.ended # "none"

\* C39: once processing_status is 'processing' for an uploaded file, the
\* processing block of main() ends with processing_status 'complete' and a
\* non-null transcript_text, or with 'error' and error_message, on the
\* chunked, the fallback and the small-file path alike.
C39_BlockEndsCompleteOrError ==
    BlockEnded =>
        \/ /\ session.processing_status = Some("complete")
           /\ session.transcript_text.some
        \/ /\ session.processing_status = Some("error")
           /\ session.error_message.some

====
